---- MODULE Spec2Model ----
(***************************************************************************)
(* The stepping engine of the SputnikVM bytecode machine                   *)
(* (src/sputnikvm/src/vm/eval/mod.rs): Machine::new, derive,               *)
(* commit_account, commit_blockhash, check, step and status, together with *)
(* the collaborators step() calls (PC, the opcode checker, the cost        *)
(* calculator, the executor and the two fact caches).                      *)
(***************************************************************************)
EXTENDS Integers, Sequences, FiniteSets, TLC

VARIABLES
    machines,   \* frame name -> Machine record, or NoMachine before derive()
    last,       \* the last call made on a machine and what it returned
    retry       \* progress of a require / commit / retry round

vars == <<machines, last, retry>>

----------------------------------------------------------------------------
(* Bounds of the model.                                                    *)

MaxGasLimit == 4      \* gas limits of the contexts run: 0..MaxGasLimit
MaxUsedGas  == 8      \* step() is explored while used_gas stays within this

----------------------------------------------------------------------------
(* The opcode bytes of the instruction set (the opcode table).             *)

BALANCE   == 49
BLOCKHASH == 64
POP       == 80
MSTORE    == 82
SSTORE    == 85
JUMP      == 86
JUMPDEST  == 91
PUSH1     == 96
CALL      == 241
RETURN    == 243

KnownOpcodes ==
    {BALANCE, BLOCKHASH, POP, MSTORE, SSTORE, JUMP, JUMPDEST, PUSH1, CALL, RETURN}

StackLimit == 3       \* the stack holds at most this many items

Max(a, b) == IF a >= b THEN a ELSE b
Min(a, b) == IF a <= b THEN a ELSE b

----------------------------------------------------------------------------
(* PC: the code buffer and the current offset.  Offsets are 0-based, as in *)
(* the source; code[o + 1] is the byte at offset o.                        *)

\* Bytes an instruction occupies: a PUSH1 carries one immediate byte.
InstructionSize(byte) == IF byte = PUSH1 THEN 2 ELSE 1

\* PC::peek: decode the instruction at `position` without advancing.
peek(code, position) ==
    IF position >= Len(code)
    THEN [ok |-> FALSE, error |-> "IndexNotFound", op |-> 0, imm |-> 0, size |-> 0]
    ELSE LET byte == code[position + 1] IN
         IF byte \notin KnownOpcodes
         THEN [ok |-> FALSE, error |-> "InvalidOpcode", op |-> 0, imm |-> 0, size |-> 0]
         ELSE IF byte = PUSH1 /\ position + 1 >= Len(code)
         THEN [ok |-> FALSE, error |-> "IndexNotFound", op |-> 0, imm |-> 0, size |-> 0]
         ELSE [ok |-> TRUE, error |-> "", op |-> byte,
               imm |-> IF byte = PUSH1 THEN code[position + 2] ELSE 0,
               size |-> InstructionSize(byte)]

\* The offsets at which an instruction starts, scanning from `position`.
RECURSIVE Boundaries(_, _)
Boundaries(code, position) ==
    IF position >= Len(code) THEN {}
    ELSE {position} \cup
         Boundaries(code, position + InstructionSize(code[position + 1]))

\* PC::is_valid: `dest` is the start of an instruction of the code.
is_valid(code, dest) == dest \in Boundaries(code, 0)

----------------------------------------------------------------------------
(* MachineStatus, ControlCheck and Control (the enums of eval/mod.rs).     *)

NoContext == [code |-> <<>>, gas_limit |-> 0]
NoWindow  == <<0, 0>>

Running   == [tag |-> "Running", error |-> "", context |-> NoContext, window |-> NoWindow]
ExitedOk  == [tag |-> "ExitedOk", error |-> "", context |-> NoContext, window |-> NoWindow]
ExitedErr(error) ==
    [tag |-> "ExitedErr", error |-> error, context |-> NoContext, window |-> NoWindow]
InvokeCall(context, window) ==
    [tag |-> "InvokeCall", error |-> "", context |-> context, window |-> window]

NoFact == [kind |-> "none", key |-> 0]
AccountFact(address)  == [kind |-> "account", key |-> address]
BlockhashFact(number) == [kind |-> "blockhash", key |-> number]

\* Result<Option<ControlCheck>, EvalError> of the opcode checker.
CheckNone            == [kind |-> "None", dest |-> 0, error |-> "", fact |-> NoFact]
CheckJump(dest)      == [kind |-> "Jump", dest |-> dest, error |-> "", fact |-> NoFact]
EvalMachine(error)   == [kind |-> "Machine", dest |-> 0, error |-> error, fact |-> NoFact]
EvalRequire(fact)    == [kind |-> "Require", dest |-> 0, error |-> "", fact |-> fact]

\* Option<Control> of the executor.
ControlNone == [kind |-> "None", dest |-> 0, context |-> NoContext, window |-> NoWindow]
ControlJump(dest) ==
    [kind |-> "Jump", dest |-> dest, context |-> NoContext, window |-> NoWindow]
ControlInvokeCall(context, window) ==
    [kind |-> "InvokeCall", dest |-> 0, context |-> context, window |-> window]

----------------------------------------------------------------------------
(* The fact caches: a cache is the set of <<key, value>> pairs committed.  *)

Has(cache, key)   == \E e \in cache : e[1] = key
Fact(cache, key)  == (CHOOSE e \in cache : e[1] = key)[2]

\* AccountState::commit / BlockhashState::commit.
commit(cache, key, value) ==
    IF ~Has(cache, key) THEN [ok |-> TRUE, cache |-> cache \cup {<<key, value>>}]
    ELSE IF <<key, value>> \in cache THEN [ok |-> TRUE, cache |-> cache]
    ELSE [ok |-> FALSE, cache |-> cache]

----------------------------------------------------------------------------
(* The stack (top at the end) and the word-addressed memory.               *)

Top(stack)    == stack[Len(stack)]
Second(stack) == stack[Len(stack) - 1]
Drop(stack, n) == SubSeq(stack, 1, Len(stack) - n)

\* Memory grown with zero words to hold at least `size` words.
Extend(memory, size) ==
    [i \in 1..Max(Len(memory), size) |-> IF i <= Len(memory) THEN memory[i] ELSE 0]

\* Items an instruction takes from the stack, and items it leaves on it.
Pops(op) ==
    CASE op = PUSH1 -> 0 [] op = JUMPDEST -> 0
      [] op = POP -> 1 [] op = JUMP -> 1 [] op = BALANCE -> 1
      [] op = BLOCKHASH -> 1 [] op = RETURN -> 1
      [] op = MSTORE -> 2 [] op = SSTORE -> 2 [] op = CALL -> 2
Pushes(op) ==
    IF op \in {PUSH1, BALANCE, BLOCKHASH} THEN 1 ELSE 0

----------------------------------------------------------------------------
(* The opcode checker: a pure function of the instruction and the State.   *)

check_opcode(instruction, state) ==
    LET op == instruction.op
        stack == state.stack
    IN  IF Len(stack) < Pops(op) THEN EvalMachine("StackUnderflow")
        ELSE IF Len(stack) - Pops(op) + Pushes(op) > StackLimit
        THEN EvalMachine("StackOverflow")
        ELSE IF op = JUMP THEN CheckJump(Top(stack))
        ELSE IF op = BALANCE /\ ~Has(state.account_state, Top(stack))
        THEN EvalRequire(AccountFact(Top(stack)))
        ELSE IF op = BLOCKHASH /\ ~Has(state.blockhash_state, Top(stack))
        THEN EvalRequire(BlockhashFact(Top(stack)))
        ELSE CheckNone

----------------------------------------------------------------------------
(* The cost calculator: four pure functions of the instruction and State.  *)

\* Cost of the memory in use once the instruction has run: one per word.
memory_cost(instruction, state) ==
    IF instruction.op \in {MSTORE, RETURN}
    THEN Max(Len(state.memory), Top(state.stack) + 1)
    ELSE Len(state.memory)

gas_cost(instruction, state) ==
    CASE instruction.op \in {PUSH1, POP, JUMPDEST, JUMP, MSTORE} -> 1
      [] instruction.op \in {SSTORE, BALANCE, BLOCKHASH, CALL} -> 2
      [] instruction.op = RETURN -> 0

\* Gas added to a sub-call's budget when the call carries a value.
gas_stipend(instruction, state) ==
    IF instruction.op = CALL /\ Second(state.stack) # 0 THEN 1 ELSE 0

\* Credit for a storage write that clears the slot.
gas_refund(instruction, state) ==
    IF instruction.op = SSTORE /\ Second(state.stack) = 0 THEN 1 ELSE 0

----------------------------------------------------------------------------
(* The executor: the instruction's effect on the State and its control     *)
(* signal.  It is called only after the checker has passed.                *)

run_opcode(instruction, state, stipend, available_gas) ==
    LET op == instruction.op
        stack == state.stack
    IN  CASE op = PUSH1 ->
               [state |-> [state EXCEPT !.stack = Append(stack, instruction.imm)],
                control |-> ControlNone]
          [] op = POP ->
               [state |-> [state EXCEPT !.stack = Drop(stack, 1)],
                control |-> ControlNone]
          [] op = JUMPDEST ->
               [state |-> state, control |-> ControlNone]
          [] op = JUMP ->
               [state |-> [state EXCEPT !.stack = Drop(stack, 1)],
                control |-> ControlJump(Top(stack))]
          [] op = MSTORE ->
               [state |-> [state EXCEPT
                    !.stack = Drop(stack, 2),
                    !.memory = [Extend(state.memory, Top(stack) + 1)
                                    EXCEPT ![Top(stack) + 1] = Second(stack)]],
                control |-> ControlNone]
          [] op = SSTORE ->
               [state |-> [state EXCEPT !.stack = Drop(stack, 2)],
                control |-> ControlNone]
          [] op = BALANCE ->
               [state |-> [state EXCEPT !.stack =
                    Append(Drop(stack, 1), Fact(state.account_state, Top(stack)))],
                control |-> ControlNone]
          [] op = BLOCKHASH ->
               [state |-> [state EXCEPT !.stack =
                    Append(Drop(stack, 1), Fact(state.blockhash_state, Top(stack)))],
                control |-> ControlNone]
          [] op = RETURN ->
               [state |-> [state EXCEPT
                    !.stack = Drop(stack, 1),
                    !.memory = Extend(state.memory, Top(stack) + 1),
                    !.out = <<Extend(state.memory, Top(stack) + 1)[Top(stack) + 1]>>],
                control |-> ControlNone]
          [] op = CALL ->
               [state |-> [state EXCEPT !.stack = Drop(stack, 2)],
                control |-> ControlInvokeCall(
                    [code |-> state.context.code,
                     gas_limit |-> Min(Top(stack), available_gas) + stipend],
                    <<0, Len(state.memory)>>)]

----------------------------------------------------------------------------
(* Machine (eval/mod.rs).                                                  *)

\* PC::new
PC_new(code) == [code |-> code, position |-> 0]

\* Machine::new
new(context, block, patch) ==
    [pc |-> PC_new(context.code),
     status |-> Running,
     state |-> [memory |-> <<>>, stack |-> <<>>,
                context |-> context, block |-> block, patch |-> patch,
                out |-> <<>>,
                memory_gas |-> 0, used_gas |-> 0, refunded_gas |-> 0,
                account_state |-> {}, blockhash_state |-> {}]]

\* Machine::derive, as a plausible bug would have it: the child starts
\* from empty fact caches.
derive_fresh_caches(self, context) ==
    new(context, self.state.block, self.state.patch)

\* Machine::derive
derive(self, context) ==
    [pc |-> PC_new(context.code),
     status |-> Running,
     state |-> [memory |-> <<>>, stack |-> <<>>,
                context |-> context,
                block |-> self.state.block, patch |-> self.state.patch,
                out |-> <<>>,
                memory_gas |-> 0, used_gas |-> 0, refunded_gas |-> 0,
                account_state |-> self.state.account_state,
                blockhash_state |-> self.state.blockhash_state]]

Ok           == [ok |-> TRUE, error |-> "", fact |-> NoFact]
Err(error)   == [ok |-> FALSE, error |-> error, fact |-> NoFact]
ErrRequire(fact) == [ok |-> FALSE, error |-> "Require", fact |-> fact]

\* Machine::commit_account, as a plausible bug would have it: the result of
\* the cache is returned but the new cache is dropped.
commit_account_dropped(self, address, value) ==
    LET r == commit(self.state.account_state, address, value)
    IN  [machine |-> self,
         ret |-> IF r.ok THEN Ok ELSE Err("Conflict")]

\* Machine::commit_account, as a plausible bug would have it: a conflicting
\* commit reports the conflict but stores the new data all the same.
commit_account_conflict_stored(self, address, value) ==
    LET r == commit(self.state.account_state, address, value)
    IN  [machine |-> [self EXCEPT !.state.account_state =
                        {e \in @ : e[1] # address} \cup {<<address, value>>}],
         ret |-> IF r.ok THEN Ok ELSE Err("Conflict")]

\* Machine::commit_account
commit_account(self, address, value) ==
    LET r == commit(self.state.account_state, address, value)
    IN  [machine |-> [self EXCEPT !.state.account_state = r.cache],
         ret |-> IF r.ok THEN Ok ELSE Err("Conflict")]

\* Machine::commit_blockhash, as a plausible bug would have it: a later
\* commit of the same number replaces the hash.
commit_blockhash_overwrite(self, number, hash) ==
    [machine |-> [self EXCEPT !.state.blockhash_state =
                    {e \in @ : e[1] # number} \cup {<<number, hash>>}],
     ret |-> Ok]

\* Machine::commit_blockhash
commit_blockhash(self, number, hash) ==
    LET r == commit(self.state.blockhash_state, number, hash)
    IN  [machine |-> [self EXCEPT !.state.blockhash_state = r.cache],
         ret |-> IF r.ok THEN Ok ELSE Err("Conflict")]

\* Machine::check, as a plausible bug would have it: the destination the
\* checker hands back is not validated.
check_unvalidated(self) ==
    LET instruction == peek(self.pc.code, self.pc.position)
    IN  IF ~instruction.ok THEN EvalMachine(instruction.error)
        ELSE LET v == check_opcode(instruction, self.state)
             IN  IF v.kind = "Jump" THEN CheckNone ELSE v

\* Machine::check: Ok, or EvalError::Machine(error), or
\* EvalError::Require(fact).
check(self) ==
    LET instruction == peek(self.pc.code, self.pc.position)
    IN  IF ~instruction.ok THEN EvalMachine(instruction.error)
        ELSE LET v == check_opcode(instruction, self.state)
             IN  IF v.kind = "Jump"
                 THEN IF is_valid(self.pc.code, v.dest)
                      THEN CheckNone
                      ELSE EvalMachine("BadJumpDest")
                 ELSE v

\* PC::read: the PC advanced past the instruction it is at.
PC_read(pc) == [pc EXCEPT !.position = @ + peek(pc.code, pc.position).size]

\* PC::jump
PC_jump(pc, dest) == [pc EXCEPT !.position = dest]

StepResult(machine, ret, executed) ==
    [machine |-> machine, ret |-> ret, executed |-> executed]

\* step(), lines 141-144, as a plausible bug would have it: the instruction
\* is consumed before the machine exits.
step_exit_err_consumed(self, error) ==
    StepResult([self EXCEPT !.status = ExitedErr(error), !.pc = PC_read(self.pc)],
               Ok, FALSE)

\* step(), lines 141-144, as a plausible bug would have it: the fatal error
\* is handed to the caller and the status is left alone.
step_exit_err_returned(self, error) ==
    StepResult(self, Err(error), FALSE)

\* step(), lines 141-144, as a plausible bug would have it: running off the
\* end of the code is taken for a normal stop.
step_exit_err_stops(self, error) ==
    StepResult([self EXCEPT !.status =
                   IF error = "IndexNotFound" THEN ExitedOk ELSE ExitedErr(error)],
               Ok, FALSE)

\* step(), lines 141-144: a fatal violation found by check().
step_exit_err(self, error) ==
    StepResult([self EXCEPT !.status = ExitedErr(error)], Ok, FALSE)

\* step(), lines 145-147, as a plausible bug would have it: the machine is
\* marked exited before the missing fact is reported.
step_require_marks(self, fact) ==
    StepResult([self EXCEPT !.status = ExitedErr("Require")], ErrRequire(fact), FALSE)

\* step(), lines 145-147: a missing fact is returned to the caller.
step_require(self, fact) ==
    StepResult(self, ErrRequire(fact), FALSE)

\* step(), line 156: the gas gate.
gas_gate(state, memory_cost_, gas_cost_) ==
    state.context.gas_limit < memory_cost_ + gas_cost_

\* step(), lines 157-158, as a plausible bug would have it: the instruction
\* is consumed and charged before the machine exits.
step_empty_gas_charged(self, gas_cost_) ==
    StepResult([self EXCEPT !.status = ExitedErr("EmptyGas"),
                            !.pc = PC_read(self.pc),
                            !.state.used_gas = @ + gas_cost_], Ok, FALSE)

\* step(), lines 157-158: out of gas.
step_empty_gas(self, gas_cost_) ==
    StepResult([self EXCEPT !.status = ExitedErr("EmptyGas")], Ok, FALSE)

\* step(), lines 169-179, as a plausible bug would have it: a Jump signal
\* is dropped and the PC stays past the jump instruction.
apply_control_unjumped(self, control) ==
    IF control.kind = "InvokeCall"
    THEN [self EXCEPT !.status = InvokeCall(control.context, control.window)]
    ELSE self

\* step(), lines 169-179: the executor's control signal is applied.
apply_control(self, control) ==
    CASE control.kind = "None" -> self
      [] control.kind = "Jump" -> [self EXCEPT !.pc = PC_jump(self.pc, control.dest)]
      [] control.kind = "InvokeCall" ->
           [self EXCEPT !.status = InvokeCall(control.context, control.window)]

\* step(), lines 161-167, as a plausible bug would have it: the memory cost
\* is added to memory_gas like the other two counters.
step_execute_memory_added(self, instruction, memory_cost_, gas_cost_, gas_stipend_, gas_refund_) ==
    LET pc == PC_read(self.pc)
        available_gas == self.state.context.gas_limit - memory_cost_ - gas_cost_
        result == run_opcode(instruction, self.state, gas_stipend_, available_gas)
        state == [result.state EXCEPT
                    !.used_gas = @ + gas_cost_,
                    !.memory_gas = @ + memory_cost_,
                    !.refunded_gas = @ + gas_refund_]
    IN  StepResult(apply_control([self EXCEPT !.state = state, !.pc = pc],
                                 result.control),
                   Ok, TRUE)

\* step(), lines 161-167: the instruction is read, run and accounted for;
\* then its control signal is applied.
step_execute(self, instruction, memory_cost_, gas_cost_, gas_stipend_, gas_refund_) ==
    LET pc == PC_read(self.pc)
        available_gas == self.state.context.gas_limit - memory_cost_ - gas_cost_
        result == run_opcode(instruction, self.state, gas_stipend_, available_gas)
        state == [result.state EXCEPT
                    !.used_gas = @ + gas_cost_,
                    !.memory_gas = memory_cost_,
                    !.refunded_gas = @ + gas_refund_]
    IN  StepResult(apply_control([self EXCEPT !.state = state, !.pc = pc],
                                 result.control),
                   Ok, TRUE)

\* Machine::step
step(self) ==
    LET checked == check(self)
    IN  IF checked.kind = "Machine" THEN step_exit_err(self, checked.error)
        ELSE IF checked.kind = "Require" THEN step_require(self, checked.fact)
        ELSE LET instruction == peek(self.pc.code, self.pc.position)
                 memory_cost_ == memory_cost(instruction, self.state)
                 gas_cost_ == gas_cost(instruction, self.state)
                 gas_stipend_ == gas_stipend(instruction, self.state)
                 gas_refund_ == gas_refund(instruction, self.state)
             IN  IF gas_gate(self.state, memory_cost_, gas_cost_)
                 THEN step_empty_gas(self, gas_cost_)
                 ELSE step_execute(self, instruction, memory_cost_, gas_cost_,
                                   gas_stipend_, gas_refund_)

\* Machine::status
status(self) == self.status

----------------------------------------------------------------------------
(* The programs and contexts the machines are run on.                      *)

ProgJump    == <<PUSH1, 3, JUMP, JUMPDEST, PUSH1, 1, BALANCE>>
ProgBadJump == <<PUSH1, JUMPDEST, PUSH1, 1, JUMP>>
ProgFarJump == <<PUSH1, 9, JUMP>>
ProgLoop    == <<JUMPDEST, PUSH1, 0, JUMP>>
ProgMemory  == <<PUSH1, 1, BLOCKHASH, PUSH1, 0, MSTORE, PUSH1, 0, RETURN>>
ProgStore   == <<PUSH1, 7, PUSH1, 2, MSTORE>>
ProgCall    == <<PUSH1, 1, PUSH1, 2, CALL, PUSH1, 0, PUSH1, 0, SSTORE>>
ProgPop     == <<PUSH1, 5, POP, POP>>
ProgUnknown == <<JUMPDEST, 12>>
ProgPushes  == <<PUSH1, 0, PUSH1, 0, PUSH1, 0, PUSH1, 0, PUSH1, 0>>

Programs ==
    {ProgJump, ProgBadJump, ProgFarJump, ProgLoop, ProgMemory, ProgStore, ProgCall,
     ProgPop, ProgUnknown, ProgPushes}

Contexts == [code : Programs, gas_limit : 0..MaxGasLimit]

\* The block header and the configuration are opaque to the stepping loop.
Block == "header"
Patch == "patch"

\* Contexts a driver hands to derive() besides a pending InvokeCall's.
ChildContexts == {[code |-> ProgJump, gas_limit |-> MaxGasLimit]}

Frames == {"parent", "child"}

\* The account addresses and block numbers the driver supplies facts for.
Addresses == {1}
Numbers   == {1}
\* The balances and hashes supplied: two, so that commits can conflict.
Values    == {0, 1}

----------------------------------------------------------------------------
(* The record of the last call, and of a require / commit / retry round    *)
(* (step() signals a missing fact, the driver commits it, step() again).   *)

Call(op, frame, arg, ret, executed, before) ==
    [op |-> op, frame |-> frame, arg |-> arg, ret |-> ret, executed |-> executed,
     before |-> before]

NoArg == <<0, 0>>

NoMachine == new(NoContext, Block, Patch)
Idle == [phase |-> "idle", frame |-> "parent", fact |-> NoFact, machine |-> NoMachine]

\* The reference run of a round: one step() of the machine as it was before
\* the first step(), with the fact committed beforehand.
Reference(origin, fact, value) ==
    IF fact.kind = "account"
    THEN step(commit_account(origin, fact.key, value).machine).machine
    ELSE step(commit_blockhash(origin, fact.key, value).machine).machine

RetryAfterStep(f, result) ==
    IF ~result.ret.ok
    THEN [phase |-> "required", frame |-> f, fact |-> result.ret.fact,
          machine |-> machines[f]]
    ELSE IF retry.phase = "committed" /\ retry.frame = f
    THEN [retry EXCEPT !.phase = "retried"]
    ELSE Idle

RetryAfterCommit(f, fact, value, result) ==
    IF retry.phase = "required" /\ retry.frame = f /\ retry.fact = fact /\ result.ret.ok
    THEN [retry EXCEPT !.phase = "committed",
                       !.machine = Reference(retry.machine, fact, value)]
    ELSE Idle

----------------------------------------------------------------------------
(* The calls a driver makes.                                               *)

Init ==
    /\ \E context \in Contexts :
           machines = [f \in {"parent"} |-> new(context, Block, Patch)]
    /\ last = Call("new", "parent", NoArg, Ok, FALSE, "Running")
    /\ retry = Idle

\* The parents of the runs that derive a child frame.
ParentContexts == [code : {ProgCall}, gas_limit : {MaxGasLimit}]

InitFrames ==
    /\ \E context \in ParentContexts :
           machines = [f \in {"parent"} |-> new(context, Block, Patch)]
    /\ last = Call("new", "parent", NoArg, Ok, FALSE, "Running")
    /\ retry = Idle

Step(f) ==
    /\ f \in DOMAIN machines
    /\ LET result == step(machines[f])
       IN  /\ result.machine.state.used_gas <= MaxUsedGas
           /\ machines' = [machines EXCEPT ![f] = result.machine]
           /\ last' = Call("step", f, NoArg, result.ret, result.executed,
                           machines[f].status.tag)
           /\ retry' = RetryAfterStep(f, result)

\* Machine::check, as a plausible bug would have it: a fatal violation is
\* written to the status, as step() does.
Check_marks(f) ==
    /\ f \in DOMAIN machines
    /\ LET checked == check(machines[f])
       IN  /\ last' = Call("check", f, NoArg,
                           CASE checked.kind = "Machine" -> Err(checked.error)
                             [] checked.kind = "Require" -> ErrRequire(checked.fact)
                             [] OTHER -> Ok,
                           FALSE, machines[f].status.tag)
           /\ machines' = [machines EXCEPT ![f].status =
                             IF checked.kind = "Machine"
                             THEN ExitedErr(checked.error) ELSE @]
    /\ retry' = Idle

Check(f) ==
    /\ f \in DOMAIN machines
    /\ LET checked == check(machines[f])
       IN  last' = Call("check", f, NoArg,
                        CASE checked.kind = "Machine" -> Err(checked.error)
                          [] checked.kind = "Require" -> ErrRequire(checked.fact)
                          [] OTHER -> Ok,
                        FALSE, machines[f].status.tag)
    /\ retry' = Idle
    /\ UNCHANGED machines

\* Machine::commit_account on a frame whose cache derive() had shared with
\* the other frame instead of copying it, as a plausible bug would have it:
\* the commit shows in every frame.
CommitAccount_shared(f, address, value) ==
    /\ f \in DOMAIN machines
    /\ LET result == commit_account(machines[f], address, value)
       IN  /\ machines' = [g \in DOMAIN machines |->
                             commit_account(machines[g], address, value).machine]
           /\ last' = Call("commit_account", f, <<address, value>>, result.ret, FALSE,
                           machines[f].status.tag)
           /\ retry' = RetryAfterCommit(f, AccountFact(address), value, result)

CommitAccount(f, address, value) ==
    /\ f \in DOMAIN machines
    /\ LET result == commit_account(machines[f], address, value)
       IN  /\ machines' = [machines EXCEPT ![f] = result.machine]
           /\ last' = Call("commit_account", f, <<address, value>>, result.ret, FALSE,
                           machines[f].status.tag)
           /\ retry' = RetryAfterCommit(f, AccountFact(address), value, result)

CommitBlockhash(f, number, hash) ==
    /\ f \in DOMAIN machines
    /\ LET result == commit_blockhash(machines[f], number, hash)
       IN  /\ machines' = [machines EXCEPT ![f] = result.machine]
           /\ last' = Call("commit_blockhash", f, <<number, hash>>, result.ret, FALSE,
                           machines[f].status.tag)
           /\ retry' = RetryAfterCommit(f, BlockhashFact(number), hash, result)

Derive(context) ==
    /\ "child" \notin DOMAIN machines
    /\ machines' = [f \in Frames |->
                      IF f = "parent" THEN machines["parent"]
                      ELSE derive(machines["parent"], context)]
    /\ last' = Call("derive", "parent", NoArg, Ok, FALSE, machines["parent"].status.tag)
    /\ retry' = Idle

DeriveInputs ==
    ChildContexts \cup
    (IF machines["parent"].status.tag = "InvokeCall"
     THEN {machines["parent"].status.context} ELSE {})

Next ==
    \/ Step("parent")
    \/ Check("parent")
    \/ \E address \in Addresses, value \in Values :
           CommitAccount("parent", address, value)
    \/ \E number \in Numbers, hash \in Values :
           CommitBlockhash("parent", number, hash)

\* One machine driven by step(), check() and the two commits.
Spec == Init /\ [][Next]_vars

NextFrames ==
    \/ \E f \in Frames : Step(f)
    \/ \E f \in Frames : Check(f)
    \/ \E f \in Frames, address \in Addresses, value \in Values :
           CommitAccount(f, address, value)
    \/ \E f \in Frames, number \in Numbers, hash \in Values :
           CommitBlockhash(f, number, hash)
    \/ \E context \in DeriveInputs : Derive(context)

\* A parent machine and the child frame derive() makes of it.
SpecFrames == InitFrames /\ [][NextFrames]_vars

----------------------------------------------------------------------------
(* What the properties below read of a call: the frame it was made on, the *)
(* machine before and after it, and the instruction at the PC before it.   *)

Called      == last'.frame
Before      == machines[Called]
After       == machines'[Called]
IsStep      == last'.op = "step"
Decoded     == peek(Before.pc.code, Before.pc.position)

\* The parts of a State other than the two fact caches.
Working(machine) ==
    [memory |-> machine.state.memory, stack |-> machine.state.stack,
     out |-> machine.state.out, memory_gas |-> machine.state.memory_gas,
     used_gas |-> machine.state.used_gas,
     refunded_gas |-> machine.state.refunded_gas]

----------------------------------------------------------------------------
\* C1: whenever check() passes and memory_cost + gas_cost of the instruction
\* at the PC exceeds the gas the frame has left (the context's gas_limit less
\* the used_gas of the earlier steps), step() does not execute the
\* instruction and sets the status to ExitedErr(EmptyGas).
GasGateOnRemainingGas ==
    [][(/\ IsStep
        /\ check(Before).kind = "None"
        /\ memory_cost(Decoded, Before.state) + gas_cost(Decoded, Before.state)
             > Before.state.context.gas_limit - Before.state.used_gas)
       => (~last'.executed /\ After.status = ExitedErr("EmptyGas"))]_vars

\* C2: a step() that ends with status ExitedErr(EmptyGas) has not invoked
\* the executor, returns success, and leaves the PC, the stack, memory,
\* output, the three gas counters and both caches as they were.
GasGateNoSideEffect ==
    [][(IsStep /\ After.status = ExitedErr("EmptyGas"))
       => (/\ ~last'.executed
           /\ last'.ret = Ok
           /\ After.pc = Before.pc
           /\ After.state = Before.state)]_vars

\* C2 witness: the gate has rejected an MSTORE whose intrinsic cost (1) and
\* memory cost (3) each fit the gas limit (3) but whose sum does not, on a
\* frame that has already used gas.
GasGateRejected ==
    /\ last.op = "step"
    /\ machines["parent"].status = ExitedErr("EmptyGas")
    /\ machines["parent"].pc = [code |-> ProgStore, position |-> 4]
    /\ machines["parent"].state.context.gas_limit = 3
    /\ machines["parent"].state.used_gas = 2
    /\ machines["parent"].state.stack = <<7, 2>>

\* C3: a step() that returns the missing-fact signal leaves the whole
\* machine (status, PC, State with its caches) unchanged.
RequireLeavesMachineUnchanged ==
    [][(IsStep /\ ~last'.ret.ok) => After = Before]_vars

\* C3 witness: step() has signalled a missing account on a frame that has
\* already executed instructions.
RequireSignalled ==
    /\ last.op = "step"
    /\ last.ret = ErrRequire(AccountFact(1))
    /\ machines["parent"].state.used_gas > 0
    /\ machines["parent"].state.stack # <<>>

\* C4: the run "step() signals a missing fact; the driver commits it;
\* step() again" ends in the same State, PC and status as one step() of the
\* machine that had the fact committed before the first step.
RequireIdempotence ==
    retry.phase = "retried" => machines[retry.frame] = retry.machine

\* C4 witness: a BALANCE that signalled the missing account has been retried
\* after the commit and has pushed the committed balance.
RetriedAfterCommit ==
    /\ retry.phase = "retried"
    /\ last.op = "step" /\ last.executed
    /\ machines["parent"].pc = [code |-> ProgJump, position |-> 7]
    /\ machines["parent"].state.account_state = {<<1, 1>>}
    /\ machines["parent"].state.stack = <<1>>

\* C5: once the status is ExitedOk or ExitedErr, no call (step(), check(),
\* commit_*) changes the status, the PC, the stack, memory, output or the
\* three gas counters.
TerminalIsFixedPoint ==
    [][\A f \in DOMAIN machines :
          machines[f].status.tag \in {"ExitedOk", "ExitedErr"}
          => (/\ machines'[f].status = machines[f].status
              /\ machines'[f].pc = machines[f].pc
              /\ Working(machines'[f]) = Working(machines[f]))]_vars

\* C5 witness: step() has been called on a machine that had already exited
\* with a checker violation after executing instructions.
SteppedAfterExit ==
    /\ last.op = "step"
    /\ last.before = "ExitedErr"
    /\ machines["parent"].status = ExitedErr("StackUnderflow")
    /\ machines["parent"].state.used_gas > 0

\* C6: when check() finds a fatal violation at the PC, step() returns
\* success, sets the status to ExitedErr of that cause and neither advances
\* the PC, invokes the executor nor charges gas; step() returns an error
\* only for a missing fact, and an executed step always decoded its
\* instruction.
FatalErrorsGoToStatus ==
    [][IsStep =>
         (/\ check(Before).kind = "Machine"
               => (/\ last'.ret = Ok
                   /\ After.status = ExitedErr(check(Before).error)
                   /\ After.pc = Before.pc
                   /\ After.state = Before.state
                   /\ ~last'.executed)
          /\ ~last'.ret.ok
               => (/\ check(Before).kind = "Require"
                   /\ last'.ret = ErrRequire(check(Before).fact))
          /\ last'.executed => Decoded.ok)]_vars

\* C6 witness: step() has turned an unknown opcode met after an executed
\* instruction into ExitedErr and returned success.
DecodeErrorExited ==
    /\ last.op = "step" /\ last.ret = Ok /\ ~last.executed
    /\ last.before = "Running"
    /\ machines["parent"].status = ExitedErr("InvalidOpcode")
    /\ machines["parent"].pc = [code |-> ProgUnknown, position |-> 1]

\* The instruction at the PC is a JUMP with a destination on the stack.
JumpAtPC == Decoded.ok /\ Decoded.op = JUMP /\ Before.state.stack # <<>>
JumpDest == Top(Before.state.stack)

\* C7: when the instruction at the PC is a jump whose destination is not the
\* start of an instruction (inside a push operand, or outside the code),
\* step() returns success, ends with status ExitedErr(BadJumpDest) and does
\* not move the PC.
BadJumpExits ==
    [][(IsStep /\ JumpAtPC /\ JumpDest \notin Boundaries(Before.pc.code, 0))
       => (/\ last'.ret = Ok
           /\ After.status = ExitedErr("BadJumpDest")
           /\ After.pc = Before.pc)]_vars

\* C7 witness: a jump to offset 1, the operand byte of the PUSH1 at offset
\* 0 (a byte equal to the JUMPDEST opcode), has been refused.
JumpIntoPushRefused ==
    /\ last.op = "step" /\ last.before = "Running"
    /\ machines["parent"].status = ExitedErr("BadJumpDest")
    /\ machines["parent"].pc = [code |-> ProgBadJump, position |-> 4]
    /\ machines["parent"].state.stack = <<JUMPDEST, 1>>

\* C8: when a jump that passes the gas gate targets the start of an
\* instruction, step() returns success having executed it, leaves the status
\* as it was (Running stays Running) and the PC is exactly the destination,
\* over the same code, so the next step decodes the instruction there; and
\* a Jump(dest) the executor returns is the destination check() validated.
ValidJumpRelocates ==
    [][IsStep =>
         (/\ (/\ JumpAtPC
              /\ JumpDest \in Boundaries(Before.pc.code, 0)
              /\ ~gas_gate(Before.state, memory_cost(Decoded, Before.state),
                           gas_cost(Decoded, Before.state)))
               => (/\ last'.ret = Ok /\ last'.executed
                   /\ After.status = Before.status
                   /\ After.pc = [code |-> Before.pc.code, position |-> JumpDest]
                   /\ peek(After.pc.code, After.pc.position)
                        = peek(Before.pc.code, JumpDest))
          /\ last'.executed
               => LET control == run_opcode(Decoded, Before.state, 0, 0).control
                  IN  control.kind = "Jump"
                        => (/\ check_opcode(Decoded, Before.state)
                                 = CheckJump(control.dest)
                            /\ is_valid(Before.pc.code, control.dest)))]_vars

\* C8 witness: [PUSH1 3, JUMP] has jumped to the JUMPDEST at offset 3 and
\* the machine is still running.
JumpedToJumpdest ==
    /\ last.op = "step" /\ last.executed
    /\ machines["parent"].status = Running
    /\ machines["parent"].pc = [code |-> ProgJump, position |-> 3]
    /\ machines["parent"].state.stack = <<>>
    /\ machines["parent"].state.used_gas = 2

\* The cache a commit call works on, before and after the call.
CacheOf(machine, op) ==
    IF op = "commit_account" THEN machine.state.account_state
    ELSE machine.state.blockhash_state

\* C9: a commit of an absent key succeeds and inserts it; a commit of a key
\* present with the same data succeeds and changes nothing; a commit of a
\* key present with other data fails with a conflicting-commit error.
CommitOutcomes ==
    [][last'.op \in {"commit_account", "commit_blockhash"} =>
         LET key == last'.arg[1]
             value == last'.arg[2]
             cache == CacheOf(Before, last'.op)
             cache_ == CacheOf(After, last'.op)
         IN  /\ ~Has(cache, key)
                  => (last'.ret = Ok /\ cache_ = cache \cup {<<key, value>>})
             /\ <<key, value>> \in cache
                  => (last'.ret = Ok /\ cache_ = cache)
             /\ (Has(cache, key) /\ <<key, value>> \notin cache)
                  => last'.ret = Err("Conflict")]_vars

\* C9 witness: a commit of account 1 with another balance than the one
\* committed before has failed with a conflict.
CommitConflicted ==
    /\ last.op = "commit_account"
    /\ last.ret = Err("Conflict")
    /\ last.arg = <<1, 1>>
    /\ machines["parent"].state.account_state = {<<1, 0>>}

\* A cache that holds one value for each key.
Functional(cache) == \A e1, e2 \in cache : e1[1] = e2[1] => e1 = e2

\* C10: a key committed with a value in a machine's account or block-hash
\* cache stays mapped to that value, and to no other, in every later state
\* of that machine, whatever step(), commit_* or derive() call follows.
CommittedFactsImmutable ==
    [][\A f \in DOMAIN machines :
          /\ f \in DOMAIN machines'
          /\ machines[f].state.account_state \subseteq machines'[f].state.account_state
          /\ machines[f].state.blockhash_state
                \subseteq machines'[f].state.blockhash_state
          /\ Functional(machines'[f].state.account_state)
          /\ Functional(machines'[f].state.blockhash_state)]_vars

\* C10 witness: the parent, holding a block hash and having run
\* instructions and derived a child, has refused a conflicting commit of
\* that block hash.
ConflictAfterDerive ==
    /\ "child" \in DOMAIN machines
    /\ last = Call("commit_blockhash", "parent", <<1, 1>>, Err("Conflict"), FALSE,
                   "InvokeCall")
    /\ machines["parent"].state.blockhash_state = {<<1, 0>>}
    /\ machines["parent"].state.used_gas > 0

IsCommit == last'.op \in {"commit_account", "commit_blockhash"}

\* C11: commit_account and commit_blockhash, whether they succeed or fail,
\* leave the status, the PC, the stack, memory, output and the gas counters
\* (and the context, block and patch) as they were; a commit that fails
\* with a conflict leaves both caches unchanged as well.
CommitTouchesOnlyCaches ==
    [][IsCommit =>
         (/\ After.status = Before.status
          /\ After.pc = Before.pc
          /\ Working(After) = Working(Before)
          /\ After.state.context = Before.state.context
          /\ After.state.block = Before.state.block
          /\ After.state.patch = Before.state.patch
          /\ ~last'.ret.ok => After.state = Before.state)]_vars

\* C11 witness: a conflicting commit has been refused by a machine that had
\* exited with an error with items on its stack.
ConflictOnExitedMachine ==
    /\ last.op = "commit_account" /\ last.ret = Err("Conflict")
    /\ last.before = "ExitedErr"
    /\ machines["parent"].status = ExitedErr("BadJumpDest")
    /\ machines["parent"].state.stack # <<>>
    /\ machines["parent"].state.account_state # {}

\* C12: a step() issued while the status is InvokeCall does not advance the
\* PC, invoke the executor, change the gas counters or overwrite the
\* pending InvokeCall status.
InvokeCallSuspends ==
    [][(IsStep /\ Before.status.tag = "InvokeCall")
       => (/\ ~last'.executed
           /\ After.pc = Before.pc
           /\ Working(After) = Working(Before)
           /\ After.status = Before.status)]_vars

\* step() finds the instruction at the PC valid and costing at least 1.
CostedInstruction ==
    check(Before).kind = "None" /\ gas_cost(Decoded, Before.state) >= 1

\* C13: gas exhaustion halts execution.  With every executed instruction
\* costing at least 1, the status leaves Running after finitely many steps
\* because the gas runs out: once the frame has used up its gas_limit, the
\* next step() of a costed instruction does not execute it and the status
\* is no longer Running, also in a program that jumps backwards for ever.
GasExhaustionHalts ==
    [][(/\ IsStep
        /\ CostedInstruction
        /\ Before.state.used_gas >= Before.state.context.gas_limit)
       => (~last'.executed /\ After.status.tag # "Running")]_vars

\* What check() returns, as the Result the caller sees.
Verdict(checked) ==
    CASE checked.kind = "Machine" -> Err(checked.error)
      [] checked.kind = "Require" -> ErrRequire(checked.fact)
      [] OTHER -> Ok

\* C14: check() changes nothing of any machine, in any status, and returns
\* the verdict step() acts on: step() returns the missing-fact signal
\* exactly when check() of the same state returns it, and exits with a
\* checker violation exactly when check() returns that violation.
CheckIsDryRun ==
    [][/\ last'.op = "check"
            => (machines' = machines /\ last'.ret = Verdict(check(Before)))
       /\ IsStep
            => (/\ ~last'.ret.ok <=> check(Before).kind = "Require"
                /\ ~last'.ret.ok => last'.ret = Verdict(check(Before))
                /\ check(Before).kind = "Machine"
                     => (~last'.executed
                         /\ After.status = ExitedErr(check(Before).error))
                /\ (/\ last'.ret.ok /\ ~last'.executed
                    /\ After.status # ExitedErr("EmptyGas"))
                     => (/\ check(Before).kind = "Machine"
                         /\ After.status = ExitedErr(check(Before).error)))]_vars

\* C14 witness: check() has reported a bad jump destination and the machine
\* is still Running where it was.
CheckedBadJump ==
    /\ last.op = "check" /\ last.ret = Err("BadJumpDest")
    /\ machines["parent"].status = Running
    /\ machines["parent"].pc = [code |-> ProgBadJump, position |-> 4]
    /\ machines["parent"].state.used_gas = 2

\* C15: after derive(), a commit_*, step() or check() made on the child
\* changes nothing of the parent (caches, status, PC, stack, memory, gas
\* counters), and one made on the parent changes nothing of the child.
FramesIndependent ==
    [][(/\ DOMAIN machines = Frames
        /\ last'.op \in {"step", "check", "commit_account", "commit_blockhash"})
       => \A f \in Frames : f # Called => machines'[f] = machines[f]]_vars

\* C15 witness: parent and child hold different balances for account 1,
\* each committed after derive(), and the child has since executed the
\* BALANCE that reads its own.
FramesDiverged ==
    /\ "child" \in DOMAIN machines
    /\ machines["parent"].state.account_state = {<<1, 0>>}
    /\ machines["child"].state.account_state = {<<1, 1>>}
    /\ machines["child"].state.stack = <<1>>
    /\ machines["child"].pc.position = 7
    /\ last.op = "step" /\ last.frame = "child" /\ last.executed

\* C16: derive(context), on a parent in any status, returns a child with
\* status Running, the PC at offset 0 of the context's code, empty stack,
\* memory and output, the three gas counters at 0, the parent's block
\* header and configuration and caches equal to the parent's at the call;
\* the parent is unchanged.
DeriveMakesFreshChild ==
    [][last'.op = "derive" =>
         LET parent == machines["parent"]
             child == machines'["child"]
         IN  /\ "child" \notin DOMAIN machines
             /\ machines'["parent"] = parent
             /\ child.state.context \in DeriveInputs
             /\ child.status = Running
             /\ child.pc = [code |-> child.state.context.code, position |-> 0]
             /\ child.state.stack = <<>>
             /\ child.state.memory = <<>>
             /\ child.state.out = <<>>
             /\ child.state.used_gas = 0
             /\ child.state.memory_gas = 0
             /\ child.state.refunded_gas = 0
             /\ child.state.block = parent.state.block
             /\ child.state.patch = parent.state.patch
             /\ child.state.account_state = parent.state.account_state
             /\ child.state.blockhash_state = parent.state.blockhash_state]_vars

\* C16 witness: a child has just been derived, with the context of the
\* pending call, from a parent suspended in InvokeCall that holds committed
\* facts and has used gas.
DerivedFromSuspendedParent ==
    /\ last.op = "derive" /\ last.before = "InvokeCall"
    /\ machines["parent"].status.tag = "InvokeCall"
    /\ machines["child"].state.context = machines["parent"].status.context
    /\ machines["parent"].state.used_gas = 4
    /\ machines["parent"].state.stack = <<>>
    /\ machines["child"].state.account_state = {<<1, 1>>}
    /\ machines["child"].state.blockhash_state = {<<1, 0>>}

\* C17: a step() that executes an instruction leaves used_gas = old
\* used_gas + gas_cost, memory_gas = memory_cost and refunded_gas = old
\* refunded_gas + gas_refund, the costs being those of the state before the
\* step; every other call leaves the three counters unchanged; so used_gas
\* and refunded_gas never decrease.
GasBookkeeping ==
    [][\A f \in DOMAIN machines :
          LET old == machines[f].state
              now == machines'[f].state
          IN  /\ (IsStep /\ Called = f /\ last'.executed)
                   => (/\ now.used_gas = old.used_gas + gas_cost(Decoded, old)
                       /\ now.memory_gas = memory_cost(Decoded, old)
                       /\ now.refunded_gas = old.refunded_gas + gas_refund(Decoded, old))
              /\ ~(IsStep /\ Called = f /\ last'.executed)
                   => (/\ now.used_gas = old.used_gas
                       /\ now.memory_gas = old.memory_gas
                       /\ now.refunded_gas = old.refunded_gas)
              /\ now.used_gas >= old.used_gas
              /\ now.refunded_gas >= old.refunded_gas]_vars

\* C17 witness: after MSTORE (memory cost 1) the machine has executed
\* PUSH1 and RETURN on the same one word of memory: memory_gas is still 1
\* while used_gas has accumulated to 6.
MemoryGasReplaced ==
    /\ last.op = "step" /\ last.executed
    /\ machines["parent"].pc = [code |-> ProgMemory, position |-> 9]
    /\ machines["parent"].state.memory_gas = 1
    /\ machines["parent"].state.used_gas = 6
    /\ machines["parent"].state.memory = <<1>>
    /\ machines["parent"].state.out = <<1>>

\* C17 second case, reached as well: an SSTORE that clears its slot has
\* credited a refund.
RefundCredited ==
    /\ last.op = "step" /\ last.executed
    /\ machines["parent"].pc = [code |-> ProgCall, position |-> 10]
    /\ machines["parent"].state.refunded_gas = 1

\* The cache a fact belongs to.
CacheFor(machine, fact) ==
    IF fact.kind = "account" THEN machine.state.account_state
    ELSE machine.state.blockhash_state

\* C18: step() signals a missing fact only for a key absent from the cache,
\* so a fact once committed is never asked for again; an instruction that
\* reads a fact executes only with the fact in the cache and uses the
\* committed value, never a default; and the step() that follows the commit
\* of the fact a step() required does not signal that fact again, so the
\* commit-and-retry loop gets past the instruction.
CommitsVisibleToSteps ==
    [][IsStep =>
         (/\ ~last'.ret.ok
               => (/\ last'.ret.fact.kind \in {"account", "blockhash"}
                   /\ ~Has(CacheFor(Before, last'.ret.fact), last'.ret.fact.key))
          /\ (last'.executed /\ Decoded.op = BALANCE)
               => (/\ Has(Before.state.account_state, Top(Before.state.stack))
                   /\ <<Top(Before.state.stack), Top(After.state.stack)>>
                        \in Before.state.account_state)
          /\ (last'.executed /\ Decoded.op = BLOCKHASH)
               => (/\ Has(Before.state.blockhash_state, Top(Before.state.stack))
                   /\ <<Top(Before.state.stack), Top(After.state.stack)>>
                        \in Before.state.blockhash_state)
          /\ (retry.phase = "committed" /\ retry.frame = Called)
               => (/\ Has(CacheFor(Before, retry.fact), retry.fact.key)
                   /\ last'.ret # ErrRequire(retry.fact)
                   /\ last'.ret.ok))]_vars

\* C18 witness: a BLOCKHASH that signalled the missing hash of block 1 has
\* been retried after the commit of hash 1 and has pushed that hash (a zero
\* default would have pushed 0).
BlockhashRetried ==
    /\ retry.phase = "retried" /\ retry.fact = BlockhashFact(1)
    /\ last.op = "step" /\ last.executed
    /\ machines["parent"].pc = [code |-> ProgMemory, position |-> 3]
    /\ machines["parent"].state.blockhash_state = {<<1, 1>>}
    /\ machines["parent"].state.stack = <<1>>

\* C19: in every reachable state of every frame, used_gas + memory_gas is at
\* most the context's gas_limit.
GasWithinBudget ==
    \A f \in DOMAIN machines :
        machines[f].state.used_gas + machines[f].state.memory_gas
            <= machines[f].state.context.gas_limit

\* C20: no machine is ever in status ExitedOk; the status of a machine is
\* changed only by a step() on it, and only to ExitedErr or InvokeCall; a
\* new or derived machine is Running; and a step() with the PC past the end
\* of the code ends in ExitedErr.
OnlyErrorExits ==
    [][/\ \A f \in DOMAIN machines : machines[f].status.tag # "ExitedOk"
       /\ \A f \in DOMAIN machines' :
            /\ machines'[f].status.tag # "ExitedOk"
            /\ f \notin DOMAIN machines => machines'[f].status = Running
            /\ (f \in DOMAIN machines /\ machines'[f].status # machines[f].status)
                 => (/\ IsStep /\ Called = f
                     /\ machines'[f].status.tag \in {"ExitedErr", "InvokeCall"})
       /\ (IsStep /\ Before.pc.position >= Len(Before.pc.code))
            => (After.status.tag = "ExitedErr" /\ ~last'.executed)]_vars

\* C20 witness: the derived child has run its code to the end and the step
\* after the last instruction has left it in ExitedErr.
ChildRanOffEnd ==
    /\ "child" \in DOMAIN machines
    /\ last.op = "step" /\ last.frame = "child" /\ last.before = "Running"
    /\ machines["child"].pc = [code |-> ProgJump, position |-> 7]
    /\ machines["child"].status = ExitedErr("IndexNotFound")
    /\ machines["child"].state.stack # <<>>

====
